---- MODULE Spec2Model ----
(***************************************************************************)
(* Model of the AHT20 driver (src/src/lib.rs).                             *)
(*                                                                         *)
(* The driver is a sequential, blocking protocol state machine.  Every     *)
(* step of a call is one bus transaction or one delay followed by the      *)
(* control flow up to the next one.  The device and the bus are the        *)
(* environment: every write may fail, every write-then-read may fail or    *)
(* return any bytes of the enumerated sets.                                *)
(***************************************************************************)
EXTENDS Integers, Sequences, FiniteSets, TLC

VARIABLES
    pc,              \* position of the running call
    op,              \* the public function the caller invoked
    handle,          \* TRUE once new has returned Ok(dev)
    max_tries,       \* the u8 retry counter of calibrate / read
    buf,             \* the bytes the last write_read stored
    result,          \* the value the call returned
    reading,         \* <<Humidity.h, Temperature.t>> of an Ok reading, else <<>>
    log,             \* bus transactions and delays issued by the running call
    statuses,        \* history: the status bytes status() returned in the call
    bus_failed,      \* history: the bus failed a transaction of the call
    overflow_checks, \* build profile: TRUE = u8 overflow panics, FALSE = wraps
    raw,             \* test vectors: the raw pair <<h, t>> a payload is packed from
    val              \* test vectors: what Temperature::celsius returned

vars == <<pc, op, handle, max_tries, buf, result, reading, log, statuses,
          bus_failed, overflow_checks, raw, val>>

----------------------------------------------------------------------------
(* Bounds of the model *)

\* polling delays explored in one read call (the loop of read has no bound
\* of its own once the counter has wrapped)
MaxPolls == 8

----------------------------------------------------------------------------
(* Constants of the program *)

I2C_ADDRESS == 56

BUSY == 128

CALIBRATION_ENABLE == 8

CalibrateTries == 10

ReadTries == 5

ResetDelayMs == 20

PollDelayMs == 10

CrcPoly == 49

CrcWidth == 8

CrcInit == 255

CrcXorOut == 0

CMD_RESET == <<186>>

CMD_CALIBRATE == <<225, 8, 0>>

CMD_MEASURE == <<172, 51, 0>>

CMD_STATUS == <<0>>

----------------------------------------------------------------------------
(* Bit arithmetic on naturals *)

RECURSIVE BitAnd(_, _)
BitAnd(a, b) ==
    IF a = 0 \/ b = 0 THEN 0
    ELSE (IF a % 2 = 1 /\ b % 2 = 1 THEN 1 ELSE 0) + 2 * BitAnd(a \div 2, b \div 2)

RECURSIVE BitOr(_, _)
BitOr(a, b) ==
    IF a = 0 THEN b
    ELSE IF b = 0 THEN a
    ELSE (IF a % 2 = 1 \/ b % 2 = 1 THEN 1 ELSE 0) + 2 * BitOr(a \div 2, b \div 2)

RECURSIVE BitXor(_, _)
BitXor(a, b) ==
    IF a = 0 THEN b
    ELSE IF b = 0 THEN a
    ELSE (IF a % 2 # b % 2 THEN 1 ELSE 0) + 2 * BitXor(a \div 2, b \div 2)

RECURSIVE Pow2(_)
Pow2(n) ==
    IF n = 0 THEN 1 ELSE 2 * Pow2(n - 1)

\* (x as u32) << n for a byte x and n <= 16: below 2^24, no bit leaves the u32
Shl(x, n) ==
    x * Pow2(n)

\* x >> n
Shr(x, n) ==
    x \div Pow2(n)

\* StatusFlags::contains
contains(bits, flag) ==
    BitAnd(bits, flag) = flag

----------------------------------------------------------------------------
(* CRC-8 as configured by CrcAlgo::<u8>::new(49, 8, 0xFF, 0x00, false) *)

\* the top bit of the register and the modulus of its width
CrcTop == Pow2(CrcWidth - 1)

CrcMod == Pow2(CrcWidth)

\* n bits of the unreflected shift register
RECURSIVE CrcShift(_, _)
CrcShift(crc, n) ==
    IF n = 0 THEN crc
    ELSE CrcShift(IF crc >= CrcTop
                  THEN BitXor((crc * 2) % CrcMod, CrcPoly)
                  ELSE (crc * 2) % CrcMod,
                  n - 1)

\* the 256-entry table CrcAlgo::new builds: the register after one byte
CrcTable ==
    [b \in 0..255 |-> CrcShift(b, 8)]

\* CRC.update_crc(crc, msg): folds msg into the register, returns the final value
RECURSIVE update_crc(_, _)
update_crc(crc, msg) ==
    IF msg = <<>> THEN BitXor(crc, CrcXorOut)
    ELSE update_crc(CrcTable[BitXor(crc, Head(msg))], Tail(msg))

\* Checksum without CRC.init_crc: the register starts as the 0u8 of line 180
Checksum_uninitialised(b) ==
    update_crc(0, SubSeq(b, 1, 6))

\* CRC.init_crc followed by CRC.update_crc over buf[..=5]
Checksum(b) ==
    update_crc(CrcInit, SubSeq(b, 1, 6))

----------------------------------------------------------------------------
(* The environment: what the device may answer *)

\* status bytes: every combination of BUSY and CALIBRATION_ENABLE (0x10, 0x18,
\* 0x90, 0x98), and 0x1C with a further flag set
StatusBytes == {16, 24, 28, 144, 152}

\* the 6 checksummed bytes of a measurement payload: a status byte and, for
\* each packed data byte, its value in 0x19 0x99 0x9A 0x66 0x66 or an extreme
PayloadHeads ==
    {<<s, b1, b2, b3, b4, b5>> :
        s \in StatusBytes, b1 \in {25, 255}, b2 \in {153, 0},
        b3 \in {154, 15}, b4 \in {102, 255}, b5 \in {102, 0}}

\* checksum bytes the device may send after head h: the right one, one with a
\* single flipped bit, and the complement
PayloadTails(h) ==
    LET c == Checksum(h) IN {c, BitXor(c, 1), 255 - c}

\* the 7-byte payloads the device may send
Payloads ==
    UNION {{Append(h, c) : c \in PayloadTails(h)} : h \in PayloadHeads}

----------------------------------------------------------------------------
(* Bus and delay capabilities, recorded in the log of the running call *)

\* i2c.write(I2C_ADDRESS, bytes)
Write(bytes) ==
    [kind |-> "write", addr |-> I2C_ADDRESS, bytes |-> bytes, len |-> 0, ms |-> 0]

\* i2c.write_read(I2C_ADDRESS, bytes, buf) with buf of n bytes
WriteRead(bytes, n) ==
    [kind |-> "write_read", addr |-> I2C_ADDRESS, bytes |-> bytes, len |-> n, ms |-> 0]

\* delay.delay_ms(ms)
DelayMs(ms) ==
    [kind |-> "delay", addr |-> 0, bytes |-> <<>>, len |-> 0, ms |-> ms]

\* number of log entries e with kind k
Count(l, k) ==
    Len(SelectSeq(l, LAMBDA e : e.kind = k))

\* number of delays of ms milliseconds in the log
Delays(l, ms) ==
    Len(SelectSeq(l, LAMBDA e : e.kind = "delay" /\ e.ms = ms))

\* number of write_read transactions reading n bytes
Reads(l, n) ==
    Len(SelectSeq(l, LAMBDA e : e.kind = "write_read" /\ e.len = n))

----------------------------------------------------------------------------
(* Decisions of the code *)

\* impl From<E> for Error<E>
From(e) ==
    "Bus(" \o e \o ")"

\* the error a failed bus operation makes the running call return: reset
\* returns E itself, every other function converts it with `?`
BusError(o) ==
    IF o = "reset" THEN "E" ELSE From("E")

\* the call returns r
Finish(r) ==
    /\ pc' = "done"
    /\ result' = r

\* Propagate, were the failed transaction tried again
Propagate_retry ==
    /\ pc' = pc
    /\ result' = result

\* the `?` after a failed bus operation: return the error at once
Propagate ==
    Finish(BusError(op))

\* calibrate_loop_cond, were the loop to poll once before testing BUSY
calibrate_loop_cond_dowhile(st) ==
    contains(st, BUSY) \/ max_tries = CalibrateTries

\* condition of the busy-wait loop of calibrate
calibrate_loop_cond(st) ==
    contains(st, BUSY)

\* calibrate_exhausted, were it to report the error kind of the read path
calibrate_exhausted_as_read ==
    "MaxTriesExceeded"

\* what calibrate returns when max_tries reaches 0
calibrate_exhausted ==
    "Uncalibrated"

\* calibrate_confirm_result, were the flag tested to be BUSY again
calibrate_confirm_result_busy(st) ==
    IF contains(st, BUSY) THEN "Uncalibrated" ELSE "Ok"

\* the confirmation of calibrate
calibrate_confirm_result(st) ==
    IF ~contains(st, CALIBRATION_ENABLE) THEN "Uncalibrated" ELSE "Ok"

\* read_loop_cond with && in place of ||
read_loop_cond_and(st, mt) ==
    contains(st, BUSY) /\ mt = 0

\* condition of the busy-wait loop of read
read_loop_cond(st, mt) ==
    contains(st, BUSY) \/ mt = 0

\* the check after the loop of read
read_exhausted(mt) ==
    mt = 0

\* read_decode without the checksum comparison
read_decode_no_checksum(b) ==
    IF ~contains(b[1], CALIBRATION_ENABLE) THEN "Uncalibrated" ELSE "Ok"

\* read_decode with the two checks in the other order
read_decode_flag_first(b) ==
    IF ~contains(b[1], CALIBRATION_ENABLE) THEN "Uncalibrated"
    ELSE IF Checksum(b) # b[7] THEN "Checksum"
    ELSE "Ok"

\* read_decode, were a handle that new has calibrated trusted to stay so
read_decode_trusting(b) ==
    IF Checksum(b) # b[7] THEN "Checksum"
    ELSE IF ~handle /\ ~contains(b[1], CALIBRATION_ENABLE) THEN "Uncalibrated"
    ELSE "Ok"

\* what read makes of the 7-byte payload b: checksum first, then calibration
read_decode(b) ==
    IF Checksum(b) # b[7] THEN "Checksum"
    ELSE IF ~contains(b[1], CALIBRATION_ENABLE) THEN "Uncalibrated"
    ELSE "Ok"

\* read_hum with byte 1 shifted by 8 in place of 12
read_hum_short_shift(b) ==
    BitOr(BitOr(Shl(b[2], 8), Shl(b[3], 4)), Shr(b[4], 4))

\* raw humidity of payload b
read_hum(b) ==
    BitOr(BitOr(Shl(b[2], 12), Shl(b[3], 4)), Shr(b[4], 4))

\* read_temp without the & 0x0f on byte 3
read_temp_unmasked(b) ==
    BitOr(BitOr(Shl(b[4], 16), Shl(b[5], 8)), b[6])

\* raw temperature of payload b
read_temp(b) ==
    BitOr(BitOr(Shl(BitAnd(b[4], 15), 16), Shl(b[5], 8)), b[6])

----------------------------------------------------------------------------
(* f32 arithmetic of the value types.  A float is held as the integer count
   of units of 2^-20; every operand here is an integer below 2^28 in that
   unit or in units of 1, so rounding to the 24-bit significand is rounding
   an integer. *)

\* number of low bits an integer n >= 0 loses in a 24-bit significand
RECURSIVE F32Excess(_)
F32Excess(n) ==
    IF n < Pow2(24) THEN 0 ELSE 1 + F32Excess(n \div 2)

\* n >= 0 rounded to 24 significant bits, ties to even
F32Mag(n) ==
    LET u == Pow2(F32Excess(n))
        q == n \div u
        r == n % u
    IN  IF 2 * r > u \/ (2 * r = u /\ q % 2 = 1) THEN (q + 1) * u ELSE q * u

\* the f32 nearest to the integer n
F32Round(n) ==
    IF n < 0 THEN 0 - F32Mag(0 - n) ELSE F32Mag(n)

\* Temperature::celsius, were the factor the 100.0 of Humidity::rh
celsius_factor_of_rh(t) ==
    F32Round(F32Round(100 * t) - 50 * Pow2(20))

\* Temperature::celsius in units of 2^-20: 200.0 * (t as f32) rounds, the
\* division by 2^20 is exact, the subtraction of 50.0 rounds
celsius(t) ==
    F32Round(F32Round(200 * t) - 50 * Pow2(20))

----------------------------------------------------------------------------
(* State machine *)

Init ==
    /\ pc = "idle"
    /\ op = "none"
    /\ handle = FALSE
    /\ max_tries = 0
    /\ buf = <<>>
    /\ result = "none"
    /\ reading = <<>>
    /\ log = <<>>
    /\ statuses = {}
    /\ bus_failed = FALSE
    /\ overflow_checks \in BOOLEAN
    /\ raw = <<>>
    /\ val = <<>>

\* Aht20::new is entered
new ==
    /\ pc = "idle"
    /\ ~handle
    /\ op' = "new"
    /\ pc' = "reset_write"
    /\ UNCHANGED <<handle, max_tries, buf, result, reading, log, statuses,
                   bus_failed, overflow_checks, raw, val>>

\* dev.reset is called
reset ==
    /\ pc = "idle"
    /\ handle
    /\ op' = "reset"
    /\ pc' = "reset_write"
    /\ UNCHANGED <<handle, max_tries, buf, result, reading, log, statuses,
                   bus_failed, overflow_checks, raw, val>>

\* dev.calibrate is called
calibrate ==
    /\ pc = "idle"
    /\ handle
    /\ op' = "calibrate"
    /\ pc' = "calibrate_write"
    /\ UNCHANGED <<handle, max_tries, buf, result, reading, log, statuses,
                   bus_failed, overflow_checks, raw, val>>

\* dev.read is called
read ==
    /\ pc = "idle"
    /\ handle
    /\ op' = "read"
    /\ pc' = "read_write"
    /\ UNCHANGED <<handle, max_tries, buf, result, reading, log, statuses,
                   bus_failed, overflow_checks, raw, val>>

\* reset_write, were new to drop the result of reset instead of returning it
reset_write_ignored ==
    /\ pc = "reset_write"
    /\ log' = Append(log, Write(CMD_RESET))
    /\ \E ok \in BOOLEAN :
          /\ bus_failed' = ~ok
          /\ IF ok \/ op = "new" THEN pc' = "reset_delay" /\ result' = result
             ELSE Propagate
    /\ UNCHANGED <<op, handle, max_tries, buf, reading, statuses, overflow_checks, raw, val>>

\* reset: self.i2c.write(I2C_ADDRESS, &[0xBA])?
reset_write ==
    /\ pc = "reset_write"
    /\ log' = Append(log, Write(CMD_RESET))
    /\ \E ok \in BOOLEAN :
          /\ bus_failed' = ~ok
          /\ IF ok THEN pc' = "reset_delay" /\ result' = result
             ELSE Propagate
    /\ UNCHANGED <<op, handle, max_tries, buf, reading, statuses, overflow_checks, raw, val>>

\* reset_delay without the call of the delay source
reset_delay_none ==
    /\ pc = "reset_delay"
    /\ log' = log
    /\ IF op = "new" THEN pc' = "calibrate_write" /\ result' = result
       ELSE Finish("Ok")
    /\ UNCHANGED <<op, handle, max_tries, buf, reading, statuses, bus_failed,
                   overflow_checks, raw, val>>

\* reset: delay.delay_ms(20); Ok(()), and in new on to calibrate
reset_delay ==
    /\ pc = "reset_delay"
    /\ log' = Append(log, DelayMs(ResetDelayMs))
    /\ IF op = "new" THEN pc' = "calibrate_write" /\ result' = result
       ELSE Finish("Ok")
    /\ UNCHANGED <<op, handle, max_tries, buf, reading, statuses, bus_failed,
                   overflow_checks, raw, val>>

\* calibrate: self.i2c.write(I2C_ADDRESS, &[0xE1, 0x08, 0x00])?; max_tries = 10
calibrate_write ==
    /\ pc = "calibrate_write"
    /\ log' = Append(log, Write(CMD_CALIBRATE))
    /\ \E ok \in BOOLEAN :
          /\ bus_failed' = ~ok
          /\ IF ok THEN pc' = "calibrate_status" /\ max_tries' = CalibrateTries
                        /\ result' = result
             ELSE Propagate /\ max_tries' = max_tries
    /\ UNCHANGED <<op, handle, buf, reading, statuses, overflow_checks, raw, val>>

\* calibrate: the loop condition, self.status()?.contains(BUSY)
calibrate_status ==
    /\ pc = "calibrate_status"
    /\ log' = Append(log, WriteRead(CMD_STATUS, 1))
    /\ \/ /\ bus_failed' = TRUE
          /\ Propagate
          /\ UNCHANGED <<buf, statuses>>
       \/ \E st \in StatusBytes :
             /\ bus_failed' = FALSE
             /\ buf' = <<st>>
             /\ statuses' = statuses \cup {st}
             /\ pc' = IF calibrate_loop_cond(st) THEN "calibrate_delay"
                      ELSE "calibrate_confirm"
             /\ result' = result
    /\ UNCHANGED <<op, handle, max_tries, reading, overflow_checks, raw, val>>

\* calibrate_delay without the return at max_tries == 0
calibrate_delay_unchecked ==
    /\ pc = "calibrate_delay"
    /\ log' = Append(log, DelayMs(PollDelayMs))
    /\ max_tries' = IF max_tries = 0 THEN 255 ELSE max_tries - 1
    /\ pc' = "calibrate_status"
    /\ UNCHANGED <<op, handle, buf, result, reading, statuses, bus_failed,
                   overflow_checks, raw, val>>

\* calibrate: the loop body, delay 10 ms, decrement, give up at 0
calibrate_delay ==
    /\ pc = "calibrate_delay"
    /\ log' = Append(log, DelayMs(PollDelayMs))
    /\ max_tries' = max_tries - 1
    /\ IF max_tries' = 0 THEN Finish(calibrate_exhausted)
       ELSE pc' = "calibrate_status" /\ result' = result
    /\ UNCHANGED <<op, handle, buf, reading, statuses, bus_failed, overflow_checks, raw, val>>

\* calibrate: the second status query, and in new Ok(dev)
calibrate_confirm ==
    /\ pc = "calibrate_confirm"
    /\ log' = Append(log, WriteRead(CMD_STATUS, 1))
    /\ \/ /\ bus_failed' = TRUE
          /\ Propagate
          /\ UNCHANGED <<buf, statuses, handle>>
       \/ \E st \in StatusBytes :
             /\ bus_failed' = FALSE
             /\ buf' = <<st>>
             /\ statuses' = statuses \cup {st}
             /\ Finish(calibrate_confirm_result(st))
             /\ handle' = (handle \/ (op = "new" /\ result' = "Ok"))
    /\ UNCHANGED <<op, max_tries, reading, overflow_checks, raw, val>>

\* read: self.i2c.write(I2C_ADDRESS, &[0xAC, 0x33, 0x00])?; max_tries = 5
read_write ==
    /\ pc = "read_write"
    /\ log' = Append(log, Write(CMD_MEASURE))
    /\ \E ok \in BOOLEAN :
          /\ bus_failed' = ~ok
          /\ IF ok THEN pc' = "read_status" /\ max_tries' = ReadTries
                        /\ result' = result
             ELSE Propagate /\ max_tries' = max_tries
    /\ UNCHANGED <<op, handle, buf, reading, statuses, overflow_checks, raw, val>>

\* read: the loop condition, and after the loop the max_tries == 0 check
read_status ==
    /\ pc = "read_status"
    /\ log' = Append(log, WriteRead(CMD_STATUS, 1))
    /\ \/ /\ bus_failed' = TRUE
          /\ Propagate
          /\ UNCHANGED <<buf, statuses>>
       \/ \E st \in StatusBytes :
             /\ bus_failed' = FALSE
             /\ buf' = <<st>>
             /\ statuses' = statuses \cup {st}
             /\ IF read_loop_cond(st, max_tries)
                THEN pc' = "read_delay" /\ result' = result
                ELSE IF read_exhausted(max_tries)
                THEN Finish("MaxTriesExceeded")
                ELSE pc' = "read_payload" /\ result' = result
    /\ UNCHANGED <<op, handle, max_tries, reading, overflow_checks, raw, val>>

\* read: the loop body, delay 10 ms and max_tries -= 1 on a u8: at 0 the
\* subtraction panics when the build checks overflow and wraps to 255 otherwise
read_delay ==
    /\ pc = "read_delay"
    /\ Delays(log, PollDelayMs) < MaxPolls
    /\ log' = Append(log, DelayMs(PollDelayMs))
    /\ IF max_tries = 0
       THEN IF overflow_checks
            THEN pc' = "panicked" /\ max_tries' = max_tries
            ELSE pc' = "read_status" /\ max_tries' = 255
       ELSE pc' = "read_status" /\ max_tries' = max_tries - 1
    /\ UNCHANGED <<op, handle, buf, result, reading, statuses, bus_failed,
                   overflow_checks, raw, val>>

\* read: the 7-byte payload, checksum, calibration flag, unpacking
read_payload ==
    /\ pc = "read_payload"
    /\ log' = Append(log, WriteRead(CMD_STATUS, 7))
    /\ \/ /\ bus_failed' = TRUE
          /\ Propagate
          /\ UNCHANGED <<buf, reading>>
       \/ \E b \in Payloads :
             /\ bus_failed' = FALSE
             /\ buf' = b
             /\ Finish(read_decode(b))
             /\ reading' = IF result' = "Ok" THEN <<read_hum(b), read_temp(b)>>
                           ELSE <<>>
    /\ UNCHANGED <<op, handle, max_tries, statuses, overflow_checks, raw, val>>

\* the caller takes the result; the locals of the call are gone
return ==
    /\ pc = "done"
    /\ pc' = "idle"
    /\ op' = "none"
    /\ max_tries' = 0
    /\ buf' = <<>>
    /\ result' = "none"
    /\ reading' = <<>>
    /\ log' = <<>>
    /\ statuses' = {}
    /\ bus_failed' = FALSE
    /\ UNCHANGED <<handle, overflow_checks, raw, val>>

Next ==
    \/ new
    \/ reset
    \/ calibrate
    \/ read
    \/ reset_write
    \/ reset_delay
    \/ calibrate_write
    \/ calibrate_status
    \/ calibrate_delay
    \/ calibrate_confirm
    \/ read_write
    \/ read_status
    \/ read_delay
    \/ read_payload
    \/ return

Spec == Init /\ [][Next]_vars

----------------------------------------------------------------------------
(* Test vectors: the pure steps of read and the value types applied to
   payloads packed from chosen raw pairs *)

\* raw temperatures are taken this far around each centre
Window == 8

\* raw humidities: the ends of the 20-bit range, 0x19999, and mixed patterns
HumSamples == {0, 1, 74565, 104857, 524288, 703710, 1048574, 1048575}

\* raw temperatures: the ends of the range, 0 C, 0xA6666, and the values
\* where 200 * t or the result passes a power of two
TempCentres == {0, 262144, 597688, 671088, 681574, 933233, 1048575}

TempSamples ==
    {t \in UNION {(c - Window)..(c + Window) : c \in TempCentres} :
        t >= 0 /\ t < Pow2(20)}

\* the inverse of the unpacking of read: status byte s and the raw pair r as
\* the 6 checksummed bytes of a payload
Pack(s, r) ==
    <<s,
      r[1] \div 4096,
      (r[1] \div 16) % 256,
      (r[1] % 16) * 16 + r[2] \div 65536,
      (r[2] \div 256) % 256,
      r[2] % 256>>

InitVectors ==
    /\ pc = "vector"
    /\ op = "none"
    /\ handle = TRUE
    /\ max_tries = 0
    /\ buf = <<>>
    /\ result = "none"
    /\ reading = <<>>
    /\ log = <<>>
    /\ statuses = {}
    /\ bus_failed = FALSE
    /\ overflow_checks = FALSE
    /\ raw \in HumSamples \X TempSamples
    /\ val = <<>>

\* a payload is built for the raw pair: status 0x00 or 0x18, and a checksum
\* byte that is right, off by a bit, the complement, or 0x00
vector ==
    /\ pc = "vector"
    /\ \E st \in {0, 24} : \E c \in PayloadTails(Pack(st, raw)) \cup {0} :
          buf' = Append(Pack(st, raw), c)
    /\ pc' = "payload"
    /\ UNCHANGED <<op, handle, max_tries, result, reading, log, statuses,
                   bus_failed, overflow_checks, raw, val>>

\* read from the checksum comparison on, applied to the payload
decode ==
    /\ pc = "payload"
    /\ result' = read_decode(buf)
    /\ reading' = IF result' = "Ok" THEN <<read_hum(buf), read_temp(buf)>>
                  ELSE <<>>
    /\ pc' = "decoded"
    /\ UNCHANGED <<op, handle, max_tries, buf, log, statuses, bus_failed,
                   overflow_checks, raw, val>>

\* Temperature::celsius of the reading
convert ==
    /\ pc = "decoded"
    /\ result = "Ok"
    /\ val' = <<celsius(reading[2])>>
    /\ pc' = "converted"
    /\ UNCHANGED <<op, handle, max_tries, buf, result, reading, log, statuses,
                   bus_failed, overflow_checks, raw>>

NextVectors ==
    \/ vector
    \/ decode
    \/ convert

SpecVectors == InitVectors /\ [][NextVectors]_vars

----------------------------------------------------------------------------
(* Vocabulary of the properties *)

\* status bytes with BUSY set
BusyBytes == {st \in StatusBytes : contains(st, BUSY)}

\* status bytes with BUSY clear and CALIBRATION_ENABLE set
ReadyBytes ==
    {st \in StatusBytes : ~contains(st, BUSY) /\ contains(st, CALIBRATION_ENABLE)}

\* the last entry of the log
Last(l) == l[Len(l)]

\* the two last transactions of the call are status queries: the one that
\* ended the busy-wait of calibrate and the confirmation after it
Confirmed ==
    /\ Len(log) >= 2
    /\ log[Len(log)] = WriteRead(CMD_STATUS, 1)
    /\ log[Len(log) - 1] = WriteRead(CMD_STATUS, 1)

\* read has returned after reading a 7-byte payload, which is in buf
PayloadRead ==
    /\ op = "read"
    /\ pc = "done"
    /\ ~bus_failed
    /\ Reads(log, 7) = 1

----------------------------------------------------------------------------
(* Properties *)

\* C1 (as claimed): in read, when every status query after the trigger write
\* reports BUSY and the budget of 5 polls is used up, read returns
\* MaxTriesExceeded: no sixth polling delay, no panic, no payload read.
C1_BusyExhaustedMaxTries ==
    (/\ op = "read"
     /\ ~bus_failed
     /\ statuses \subseteq BusyBytes
     /\ Delays(log, PollDelayMs) >= ReadTries)
    => /\ Delays(log, PollDelayMs) = ReadTries
       /\ Reads(log, 7) = 0
       /\ pc # "panicked"
       /\ (pc = "done" => result = "MaxTriesExceeded")

\* C2 (as claimed): the busy-poll loop of read runs its body only after a
\* status query that reported BUSY, at most 5 times, and read does not die
\* in it.
C2_ReadPollBounded ==
    op = "read"
    => /\ Delays(log, PollDelayMs) <= ReadTries
       /\ pc # "panicked"
       /\ (pc = "read_delay" => contains(buf[1], BUSY))

\* C3: in calibrate, 10 consecutive BUSY polls end the call with
\* Uncalibrated, and no execution of calibrate returns MaxTriesExceeded.
C3_CalibrateExhaustedUncalibrated ==
    op \in {"calibrate", "new"}
    => /\ result # "MaxTriesExceeded"
       /\ (Delays(log, PollDelayMs) = CalibrateTries
           => pc = "done" /\ result = "Uncalibrated")
       /\ (/\ ~bus_failed
           /\ statuses \subseteq BusyBytes
           /\ Reads(log, 1) = CalibrateTries)
          => \/ pc = "calibrate_delay"
             \/ pc = "done" /\ result = "Uncalibrated"

\* C3 witness: a calibrate call that met BUSY on 10 polls and has returned
C3_Witness ==
    /\ op = "calibrate"
    /\ pc = "done"
    /\ statuses \subseteq BusyBytes
    /\ Reads(log, 1) = CalibrateTries
    /\ Delays(log, PollDelayMs) = CalibrateTries
    /\ result = "Uncalibrated"

\* C4: when every status query of calibrate returns BUSY clear and
\* CALIBRATION_ENABLE set, calibrate never calls the delay source and returns
\* Ok after the trigger write and exactly two status queries.
C4_CalibrateImmediate ==
    (/\ op = "calibrate"
     /\ ~bus_failed
     /\ statuses \subseteq ReadyBytes)
    => /\ Count(log, "delay") = 0
       /\ (pc = "done"
           => /\ result = "Ok"
              /\ log = <<Write(CMD_CALIBRATE), WriteRead(CMD_STATUS, 1),
                         WriteRead(CMD_STATUS, 1)>>)

\* C4 witness: calibrate has returned after seeing 0x18 on every query
C4_Witness ==
    /\ op = "calibrate"
    /\ pc = "done"
    /\ ~bus_failed
    /\ statuses = {24}
    /\ Reads(log, 1) = 2
    /\ result = "Ok"

\* C5: calibrate reaches its confirmation only with BUSY observed clear; it
\* returns Ok only after a further status query, a bus transaction of its
\* own, returned CALIBRATION_ENABLE set, and returns Uncalibrated when that
\* query has the bit clear.
C5_CalibrateConfirms ==
    op \in {"calibrate", "new"}
    => /\ (pc = "calibrate_confirm" => ~contains(buf[1], BUSY))
       /\ (pc = "done" /\ result = "Ok"
           => /\ ~bus_failed
              /\ Confirmed
              /\ contains(buf[1], CALIBRATION_ENABLE))
       /\ (/\ pc = "done"
           /\ ~bus_failed
           /\ Confirmed
           /\ ~contains(buf[1], CALIBRATION_ENABLE))
          => result = "Uncalibrated"

\* C5 witness: the confirmation found CALIBRATION_ENABLE clear while BUSY was
\* clear as well
C5_Witness ==
    /\ op = "calibrate"
    /\ pc = "done"
    /\ ~bus_failed
    /\ Confirmed
    /\ buf = <<16>>
    /\ result = "Uncalibrated"

\* C6: a payload whose byte 6 differs from the CRC-8 (poly 0x31, init 0xFF,
\* final XOR 0x00) of bytes 0..5 makes read return Checksum without a
\* reading; read returns Ok only when byte 6 equals that CRC.
C6_ChecksumMismatchRejected ==
    /\ CrcPoly = 49 /\ CrcInit = 255 /\ CrcXorOut = 0
    /\ PayloadRead
       => /\ (buf[7] # Checksum(buf) => result = "Checksum" /\ reading = <<>>)
          /\ (result = "Ok" => buf[7] = Checksum(buf) /\ reading # <<>>)

\* C6 witness: a calibrated payload with one flipped checksum bit
C6_Witness ==
    /\ PayloadRead
    /\ contains(buf[1], CALIBRATION_ENABLE)
    /\ buf[7] = BitXor(Checksum(buf), 1)
    /\ result = "Checksum"

\* C7: read verifies the checksum before it inspects the calibration flag:
\* Uncalibrated is returned only for a payload whose checksum matched, and a
\* payload with a wrong checksum and CALIBRATION_ENABLE clear gives Checksum.
C7_ChecksumBeforeFlag ==
    PayloadRead
    => /\ (result = "Uncalibrated" => buf[7] = Checksum(buf))
       /\ (buf[7] # Checksum(buf) /\ ~contains(buf[1], CALIBRATION_ENABLE)
           => result = "Checksum")

\* C7 witness: a payload with both a wrong checksum and the flag clear
C7_Witness ==
    /\ PayloadRead
    /\ buf[7] # Checksum(buf)
    /\ ~contains(buf[1], CALIBRATION_ENABLE)
    /\ result = "Checksum"

\* C8: on a handle that new has calibrated, and after any earlier calls, a
\* payload with a matching checksum and CALIBRATION_ENABLE clear makes read
\* return Uncalibrated, with no reading.
C8_ReadRechecksCalibration ==
    (/\ PayloadRead
     /\ buf[7] = Checksum(buf)
     /\ ~contains(buf[1], CALIBRATION_ENABLE))
    => /\ handle
       /\ result = "Uncalibrated"
       /\ reading = <<>>

\* C8 witness: such a read on a handle whose calibration succeeded
C8_Witness ==
    /\ handle
    /\ PayloadRead
    /\ buf[7] = Checksum(buf)
    /\ ~contains(buf[1], CALIBRATION_ENABLE)
    /\ result = "Uncalibrated"

\* C9: a failed bus write or write-then-read ends the call in the same step
\* with that error (E for reset, Bus(E) otherwise); the failed transaction is
\* the last entry of the call's log, so it is not retried and no transaction
\* or delay follows it.
C9_BusErrorPropagates ==
    /\ [](bus_failed
          => /\ pc = "done"
             /\ result = (IF op = "reset" THEN "E" ELSE "Bus(E)")
             /\ Last(log).kind \in {"write", "write_read"})
    /\ [][bus_failed => pc' = "idle" /\ log' = <<>>]_vars
    /\ [][bus_failed' => log' = Append(log, Last(log'))]_vars

\* C9 witness: the payload read of a read call failed
C9_Witness ==
    /\ bus_failed
    /\ op = "read"
    /\ Last(log) = WriteRead(CMD_STATUS, 7)
    /\ result = "Bus(E)"

\* C10: new issues the reset write, one 20 ms delay, the calibration-trigger
\* write and then only the handshake (status queries and 10 ms delays); a
\* failed reset write ends it; it yields a handle exactly when it returns Ok,
\* which takes the confirmation; without a bus error it has made exactly two
\* command writes and one 20 ms delay.
C10_NewSequence ==
    op = "new"
    => /\ (Len(log) >= 1 => log[1] = Write(CMD_RESET))
       /\ (Len(log) >= 2 => log[2] = DelayMs(20))
       /\ (Len(log) >= 3 => log[3] = Write(CMD_CALIBRATE))
       /\ \A i \in 4..Len(log) :
             log[i] \in {WriteRead(CMD_STATUS, 1), DelayMs(10)}
       /\ (bus_failed /\ Len(log) = 1 => pc = "done")
       /\ (handle <=> pc = "done" /\ result = "Ok")
       /\ (pc = "done" /\ result = "Ok"
           => /\ ~bus_failed
              /\ Confirmed
              /\ contains(buf[1], CALIBRATION_ENABLE))
       /\ (pc = "done" /\ ~bus_failed
           => Count(log, "write") = 2 /\ Delays(log, 20) = 1)

\* C10 witness: new has returned a handle after polling at least once
C10_Witness ==
    /\ op = "new"
    /\ pc = "done"
    /\ result = "Ok"
    /\ handle
    /\ Delays(log, PollDelayMs) >= 1

\* C11: for every payload read accepts, the raw humidity is
\* (b1<<12)|(b2<<4)|(b3>>4) and the raw temperature is
\* ((b3 & 0x0F)<<16)|(b4<<8)|b5, both within [0, 2^20 - 1].
C11_UnpackLayout ==
    (result = "Ok" /\ Len(buf) = 7)
    => /\ reading = <<buf[2] * 4096 + buf[3] * 16 + buf[4] \div 16,
                      (buf[4] % 16) * 65536 + buf[5] * 256 + buf[6]>>
       /\ reading[1] \in 0..1048575
       /\ reading[2] \in 0..1048575

\* C11 witness: an accepted payload whose byte 3 has both nibbles set
C11_Witness ==
    /\ pc = "decoded"
    /\ result = "Ok"
    /\ buf[4] = 154
    /\ reading[1] > 0
    /\ reading[2] > 65535

\* the payload's checksummed bytes are six 0x00 bytes
ZeroHead ==
    Len(buf) = 7 /\ SubSeq(buf, 1, 6) = <<0, 0, 0, 0, 0, 0>>

\* C12 (as claimed): the checksum read computes over six 0x00 bytes is 0x00,
\* so read does not return Checksum for seven 0x00 bytes.
C12_ZeroChecksumIsZero ==
    (pc = "decoded" /\ ZeroHead /\ buf[7] = 0) => result # "Checksum"

\* C12 (amended): the checksum read computes over six 0x00 bytes is 0x6A:
\* after them read returns Checksum for every byte 6 but 0x6A.
C12_ZeroChecksumIs6A ==
    (pc = "decoded" /\ ZeroHead)
    => /\ Checksum(buf) = 106
       /\ (result = "Checksum" <=> buf[7] # 106)

\* C12 witness: six 0x00 bytes followed by 0x6A pass the checksum comparison
C12_Witness ==
    /\ pc = "decoded"
    /\ ZeroHead
    /\ buf[7] = 106
    /\ result = "Uncalibrated"

\* C13: reset issues one bus write, the byte 0xBA to address 0x38, and then
\* one delay of 20 ms; nothing else, no status query, no second write.
C13_ResetSequence ==
    op = "reset"
    => LET w == [kind |-> "write", addr |-> 56, bytes |-> <<186>>,
                 len |-> 0, ms |-> 0]
           d == [kind |-> "delay", addr |-> 0, bytes |-> <<>>,
                 len |-> 0, ms |-> 20]
       IN  /\ log \in {<<>>, <<w>>, <<w, d>>}
           /\ (bus_failed => log = <<w>>)
           /\ (pc = "done" /\ ~bus_failed => log = <<w, d>> /\ result = "Ok")
           /\ (log = <<w, d>> => pc = "done")

\* C13 witness: a reset call has returned Ok
C13_Witness ==
    /\ op = "reset"
    /\ pc = "done"
    /\ result = "Ok"
    /\ Len(log) = 2

\* C14: packing a raw pair by the inverse layout and unpacking it as read
\* does gives the pair back; 0x19 0x99 0x9A 0x66 0x66 unpack to 0x19999 and
\* 0xA6666.
C14_RoundTrip ==
    (pc \in {"decoded", "converted"} /\ result = "Ok")
    => /\ reading = raw
       /\ (SubSeq(buf, 2, 6) = <<25, 153, 154, 102, 102>>
           => reading = <<104857, 681574>>)

\* C14 witness: the example bytes have been unpacked
C14_Witness ==
    /\ pc = "decoded"
    /\ result = "Ok"
    /\ SubSeq(buf, 2, 6) = <<25, 153, 154, 102, 102>>
    /\ raw = <<104857, 681574>>

\* C15: Temperature::celsius returns the f32 value of 200.0 * t / 2^20 - 50.0,
\* which is within 2^-17 of the real value, lies in [-50.0, 150.0) and is
\* strictly increasing in t (values in units of 2^-20).
C15_Celsius ==
    pc = "converted"
    => LET t == reading[2]
           c == val[1]
           exact == 200 * t - 52428800
       IN  /\ c = F32Round(F32Round(200 * t) - 52428800)
           /\ c - exact \in -8..8
           /\ c >= -52428800
           /\ c < 157286400
           /\ (t < 1048575 => c < celsius(t + 1))
           /\ (t > 0 => celsius(t - 1) < c)

\* C15 witness: a conversion in which f32 rounding took place
C15_Witness ==
    /\ pc = "converted"
    /\ reading[2] > 671088
    /\ val[1] # 200 * reading[2] - 52428800

\* C16: calibrate makes at most 10 polling delays of 10 ms (100 ms), its
\* counter stays within 1..10 while it polls and never goes below 0, and it
\* always has a next step until it returns, within 22 log entries.
C16_CalibrateBounded ==
    op = "calibrate"
    => /\ Delays(log, 10) <= 10
       /\ 10 * Delays(log, 10) <= 100
       /\ max_tries >= 0
       /\ (pc \in {"calibrate_status", "calibrate_delay", "calibrate_confirm"}
           => max_tries = 10 - Delays(log, 10) /\ max_tries >= 1)
       /\ Len(log) <= 22
       /\ (pc # "done" => ENABLED Next)

\* C16 witness: calibrate has returned after its 10th polling delay
C16_Witness ==
    /\ op = "calibrate"
    /\ pc = "done"
    /\ max_tries = 0
    /\ Delays(log, 10) = 10

\* C17 (as claimed): in calibrate every 10 ms polling delay, the 10th too, is
\* followed by a status query before the call returns.
C17_DelayThenQuery ==
    (op \in {"calibrate", "new"} /\ pc = "done")
    => Last(log) # DelayMs(10)

\* C18 (as claimed): every status query is a write-then-read to 0x38 that
\* writes the single byte 0x71 and reads back 1 byte.
C18_StatusRequestByte ==
    \A i \in 1..Len(log) :
        (log[i].kind = "write_read" /\ log[i].len = 1)
        => log[i].addr = 56 /\ log[i].bytes = <<113>>

\* C19 (as claimed): the retry counter of read stays within 0..5, is not
\* decremented at 0, and read does not panic on it.
C19_CounterNoUnderflow ==
    op = "read"
    => /\ max_tries \in 0..5
       /\ (pc = "read_delay" => max_tries > 0)
       /\ pc # "panicked"

\* C20: read issues the payload write-then-read only after the trigger write
\* and right after a status query of the same call that reported BUSY clear;
\* Ok, Checksum and Uncalibrated are returned only after that payload read.
C20_PayloadAfterNotBusy ==
    op = "read"
    => /\ (pc = "read_payload"
           => /\ ~bus_failed
              /\ log[1] = Write(CMD_MEASURE)
              /\ Last(log) = WriteRead(CMD_STATUS, 1)
              /\ ~contains(buf[1], BUSY))
       /\ (Reads(log, 7) >= 1
           => /\ Reads(log, 7) = 1
              /\ pc = "done"
              /\ log[1] = Write(CMD_MEASURE)
              /\ Last(log) = WriteRead(CMD_STATUS, 7)
              /\ log[Len(log) - 1] = WriteRead(CMD_STATUS, 1)
              /\ \E st \in statuses : ~contains(st, BUSY))
       /\ (pc = "done" /\ result \in {"Ok", "Checksum", "Uncalibrated"}
           => Reads(log, 7) = 1 /\ ~bus_failed)

\* C20 witness: read returned a reading after one BUSY poll
C20_Witness ==
    /\ PayloadRead
    /\ result = "Ok"
    /\ Delays(log, PollDelayMs) = 1
    /\ statuses \cap BusyBytes # {}

====
